---- MODULE Spec2Model ----
(***************************************************************************)
(* The two classes of src/pkg/commons-node/ScribeProcess.js as state        *)
(* machines.                                                               *)
(*                                                                         *)
(* class Debugger (372-628), the debug-session orchestrator.  Every        *)
(* protocol request is a suspension point: the request is recorded on the  *)
(* session it was sent to and an entry of `pending' keeps the continuation *)
(* of the async function that awaits it.  The adapter answers outstanding  *)
(* requests in any order, with success or failure, and delivers target     *)
(* events to the reactions subscribed in openSession.                      *)
(*                                                                         *)
(* class ScribeProcess (31-143), the wrapper of scribe_cat.  `scribe'      *)
(* holds its fields, the processes it has spawned, the timers armed and    *)
(* the promise reactions of write() and join() that are ready to run.      *)
(***************************************************************************)
EXTENDS Integers, Sequences, FiniteSets, Bags, TLC

\* ------------------------------------------------------------------ bounds
MaxOps == 4          \* caller-invoked operations plus target events
MaxThreads == 2      \* length of a threads() response
MaxLines == 2        \* lines of a source text (getSourceLines inputs)
MaxStart == 3        \* largest start / length handed to getSourceLines
MaxCalls == 3        \* write() and join() calls made on the ScribeProcess

\* ------------------------------------------------------------------ values
NoSession == 0                    \* _debugSession == null
NoThread == 0                     \* null: _activeThread after 509 / 566
Undefined == -1                   \* undefined: _activeThread before it is
                                  \* assigned (377), body without threadId
ThreadIds == {1, 2}
ThreadNames == {"main", "worker"}
ExitCodes == {0, 1}
NoPath == <<>>                    \* source.path absent
NoName == "<none>"                \* source.name absent
EmptyMap == [t \in {} |-> ""]     \* new Map()

\* A stack frame with its source flattened in: line, and the source's fields.
NoFrame == [line |-> 0, hasSource |-> FALSE, path |-> NoPath, ref |-> 0,
            name |-> NoName]

VARIABLES
  debugSession,   \* Debugger._debugSession: NoSession or a session id
  capabilities,   \* Debugger._capabilities: session whose initialize answered
  threads,        \* Debugger._threads: function thread id -> name
  activeThread,   \* Debugger._activeThread
  sourceFiles,    \* Debugger._sourceFiles: keys held by the SourceFileCache
  sessions,       \* VsDebugSession objects by id: subscriptions, requests sent
  pending,        \* bag of outstanding awaits: request plus its continuation
  console,        \* bag of the calls made on ConsoleIO
  delivered,      \* bag of the target events emitted by the adapter
  missed,         \* events emitted on a stream nobody had subscribed to
  unhandled,      \* rejected promises that no caller awaits and nothing catches
  ret,            \* outcome most recently handed to a caller of the Debugger
  threadsBody,    \* body of the threads() response _cacheThreads handled last
  calls,          \* operations the caller has invoked so far
  gsl,            \* getSourceLines call under test: arguments and result
  stack,          \* frames most recently returned to a caller of getStackTrace
  scribe          \* the ScribeProcess object, its scribe_cat processes and tasks

vars == <<debugSession, capabilities, threads, activeThread, sourceFiles,
          sessions, pending, console, delivered, missed, unhandled, ret,
          threadsBody, calls, gsl, stack, scribe>>

\* ------------------------------------------------------------------ helpers
Add(bag, e) == bag (+) SetToBag({e})
Remove(bag, e) == bag (-) SetToBag({e})

SeqsUpTo(S, n) == UNION {[1..k -> S] : k \in 0..n}

Thread == [id : ThreadIds, name : ThreadNames]
ThreadLists == SeqsUpTo(Thread, MaxThreads)

\* A request as recorded on the session that received it.
Req(cmd, tid, n) == [cmd |-> cmd, threadId |-> tid, totalFrames |-> n]

\* An outstanding await: the request (session, command), the async function
\* that resumes when it is answered and who, if anybody, awaits that function.
Await(s, cmd, who, tid) ==
  [sess |-> s, cmd |-> cmd, who |-> who, tid |-> tid, frame |-> NoFrame]

\* The event streams of a session (observeOutputEvents, ...).
Streams == {"output", "continued", "stopped", "exited", "terminated"}

\* A VsDebugSession: the streams subscribed to, the bag of requests sent to
\* it, whether its launch has answered and whether it has been disconnected.
NewSession == [subs |-> {}, sent |-> EmptyBag, failed |-> EmptyBag,
               launched |-> FALSE, disconnected |-> FALSE]

Send(ss, s, req) == [ss EXCEPT ![s].sent = Add(@, req)]

\* The answer to the request of await p reaches the session: the promise of
\* the request resolves, or it rejects and the session has one more failed
\* request of that command.  A file read is no request of a session.
Outcome(ss, p, ok) ==
  IF ok \/ p.sess = NoSession THEN ss
  ELSE [ss EXCEPT ![p.sess].failed = Add(@, p.cmd)]

\* How many requests `cmd' session s has been sent.
Sent(s, cmd) ==
  LET b == sessions[s].sent
      hits == {r \in BagToSet(b) : r.cmd = cmd}
  IN BagCardinality([r \in hits |-> b[r]])

Error(op, msg) == [op |-> op, val |-> msg]
NoActiveSession == "There is no active debugging session."


\* ------------------------------------------------------------------ accessors
\* The check of 623 left out.
AlwaysHeld == TRUE

\* _ensureDebugSession (622-627): throws when no session is held.
EnsureDebugSession == debugSession # NoSession

\* getThreads (396-399): err is the message thrown, "" when a value is returned.
GetThreads ==
  IF EnsureDebugSession
    THEN [err |-> "", val |-> threads]
    ELSE [err |-> NoActiveSession, val |-> EmptyMap]

\* getActiveThread (401-404).
GetActiveThread ==
  IF EnsureDebugSession
    THEN [err |-> "", val |-> activeThread]
    ELSE [err |-> NoActiveSession, val |-> NoThread]

\* ------------------------------------------------------------------ _cacheThreads
\* new Map(threads.map(thd => [thd.id, thd.name])): entries are inserted in
\* list order, a later entry with the same id overwrites the earlier one.
RECURSIVE ThreadMap(_)
ThreadMap(list) ==
  IF list = <<>> THEN EmptyMap
  ELSE LET m == ThreadMap(SubSeq(list, 1, Len(list) - 1))
           last == list[Len(list)]
       IN [t \in (DOMAIN m) \cup {last.id} |->
             IF t = last.id THEN last.name ELSE m[t]]

LastThread(list) == IF Len(list) > 0 THEN list[Len(list)].id ELSE NoThread

\* this._activeThread = null; if (threads.length > 0) ... = threads[0].id
FirstThread(list) == IF Len(list) > 0 THEN list[1].id ELSE NoThread

\* ------------------------------------------------------------------ closeSession
StaleThreads == threads
StaleHandle == debugSession
StaleActive == activeThread

\* The assignments closeSession makes once disconnect has answered (507-514).
ClosedThreads == EmptyMap
ClosedHandle == NoSession
ClosedActive == NoThread
FlushedCache == {}

\* The synchronous part of closeSession (502-506), run by the caller or from
\* inside the exited / terminated reaction: nothing when no session is held,
\* else disconnect is sent to the session held now and the call suspends.
CloseRequest(ss) ==
  IF debugSession = NoSession THEN ss
  ELSE Send(ss, debugSession, Req("disconnect", NoThread, 0))

CloseAwait(pp, who) ==
  IF debugSession = NoSession THEN pp
  ELSE Add(pp, Await(debugSession, "disconnect", who, NoThread))


\* ------------------------------------------------------------------ ScribeProcess
\* No ScribeProcess has been constructed: the state of the object before its
\* constructor runs (32-36).
NoProcess == 0                    \* _childPromise / _subscription == null
NoTimer == 0                      \* _joinTimer == null
NoInterval == 0                   \* _joinInterval == null

NoScribe ==
  [childPromise |-> NoProcess, subscription |-> NoProcess,
   joinTimer |-> NoTimer, joinInterval |-> NoInterval,
   procs |-> <<>>, timers |-> {}, micro |-> <<>>, joins |-> <<>>,
   writes |-> 0, calls |-> 0, outlived |-> FALSE]

\* ------------------------------------------------------------------ initial state
\* The Debugger after its constructor (381-387): no session, empty directory.
NoCall == [op |-> "none", val |-> "none"]
NoGsl == [kind |-> "none", text |-> <<>>, start |-> 0, length |-> 0,
          result |-> <<>>, done |-> FALSE]

Init ==
  /\ debugSession = NoSession
  /\ capabilities = NoSession
  /\ threads = EmptyMap
  /\ activeThread = Undefined
  /\ sourceFiles = {}
  /\ sessions = <<>>
  /\ pending = EmptyBag
  /\ console = EmptyBag
  /\ delivered = EmptyBag
  /\ missed = 0
  /\ unhandled = 0
  /\ ret = NoCall
  /\ threadsBody = <<>>
  /\ calls = 0
  /\ gsl = NoGsl
  /\ stack = <<>>
  /\ scribe = NoScribe

\* The caller and the target together act at most MaxOps times.
Budget == calls + BagCardinality(delivered) < MaxOps

\* ------------------------------------------------------------------ openSession
\* 467-479: a new VsDebugSession becomes the handle, initialize is sent to it
\* and the call suspends.
OpenSession ==
  /\ Budget
  /\ calls' = calls + 1
  /\ LET s == Len(sessions) + 1 IN
       /\ debugSession' = s
       /\ sessions' = Send(Append(sessions, NewSession), s,
                           Req("initialize", NoThread, 0))
       /\ pending' = Add(pending, Await(s, "initialize", "caller", NoThread))
  /\ ret' = [op |-> "openSession", val |-> "pending"]
  /\ UNCHANGED <<capabilities, threads, activeThread, sourceFiles, console,
                 delivered, missed, unhandled, threadsBody, gsl, stack, scribe>>

\* 481-497 with the subscription of the terminated stream (493-495) left out.
SubscribeButTerminated(ss, s) ==
  Send([ss EXCEPT ![s].subs = Streams \ {"terminated"}], s,
       Req("launch", NoThread, 0))

\* 481-497: the five event streams of the local `session' are subscribed,
\* then launch is sent to it.
SubscribeAndLaunch(ss, s) ==
  Send([ss EXCEPT ![s].subs = Streams], s, Req("launch", NoThread, 0))

\* initialize answered (475-497).  A failure rejects openSession; the handle
\* assigned at 467 stays.
InitializeResponse(p, ok) ==
  /\ p.cmd = "initialize"
  /\ IF ok
       THEN /\ capabilities' = p.sess
            /\ sessions' = SubscribeAndLaunch(sessions, p.sess)
            /\ pending' = Add(Remove(pending, p),
                              Await(p.sess, "launch", "caller", NoThread))
            /\ ret' = ret
       ELSE /\ pending' = Remove(pending, p)
            /\ ret' = Error("openSession", "initialize failed")
            /\ sessions' = Outcome(sessions, p, FALSE)
            /\ UNCHANGED capabilities
  /\ UNCHANGED <<debugSession, threads, activeThread, sourceFiles, console,
                 delivered, missed, unhandled, threadsBody, calls, gsl, stack, scribe>>

\* launch answered (497-498, 557-563): _cacheThreads asserts a session is held
\* and sends threads to the session held NOW (this._debugSession).
LaunchResponse(p, ok) ==
  /\ p.cmd = "launch"
  /\ IF ok /\ debugSession # NoSession
       THEN /\ sessions' = Send([sessions EXCEPT ![p.sess].launched = TRUE],
                                debugSession, Req("threads", NoThread, 0))
            /\ pending' = Add(Remove(pending, p),
                              Await(debugSession, "threads", "caller",
                                    NoThread))
            /\ ret' = ret
       ELSE /\ pending' = Remove(pending, p)
            /\ ret' = Error("openSession",
                            IF ok THEN "_cacheThreads called without session"
                                  ELSE "launch failed")
            /\ sessions' = Outcome([sessions EXCEPT ![p.sess].launched = ok],
                                   p, ok)
  /\ UNCHANGED <<debugSession, capabilities, threads, activeThread,
                 sourceFiles, console, delivered, missed, unhandled,
                 threadsBody, calls, gsl, stack, scribe>>

\* threads answered (563-569): the directory is replaced wholesale and the
\* active thread becomes the first listed thread; openSession resolves.
ThreadsResponse(p, ok, list) ==
  /\ p.cmd = "threads"
  /\ pending' = Remove(pending, p)
  /\ IF ok
       THEN /\ threads' = ThreadMap(list)
            /\ activeThread' = FirstThread(list)
            /\ threadsBody' = list
            /\ ret' = [op |-> "openSession", val |-> "ok"]
       ELSE /\ ret' = Error("openSession", "threads failed")
            /\ UNCHANGED <<threads, activeThread, threadsBody>>
  /\ sessions' = Outcome(sessions, p, ok)
  /\ UNCHANGED <<debugSession, capabilities, sourceFiles, console,
                 delivered, missed, unhandled, calls, gsl, stack, scribe>>

\* ------------------------------------------------------------------ closeSession
\* Caller-invoked closeSession (501-506): returns at once when no session is
\* held, else sends disconnect and suspends.
CloseSession ==
  /\ Budget
  /\ calls' = calls + 1
  /\ sessions' = CloseRequest(sessions)
  /\ pending' = CloseAwait(pending, "caller")
  /\ ret' = [op |-> "closeSession",
             val |-> IF debugSession = NoSession THEN "ok" ELSE "pending"]
  /\ UNCHANGED <<debugSession, capabilities, threads, activeThread,
                 sourceFiles, console, delivered, missed, unhandled,
                 threadsBody, gsl, stack, scribe>>

\* disconnect answered (506-514).  On success the directory, the handle and
\* the active thread are reset and the source cache flushed, whatever session
\* is held by now.  A failure rejects closeSession before any reset: the
\* caller gets it, a reaction that called closeSession() dropped the promise.
DisconnectResponse(p, ok) ==
  /\ p.cmd = "disconnect"
  /\ pending' = Remove(pending, p)
  /\ IF ok
       THEN /\ threads' = ClosedThreads
            /\ debugSession' = ClosedHandle
            /\ activeThread' = ClosedActive
            /\ sourceFiles' = FlushedCache
            /\ sessions' = [sessions EXCEPT ![p.sess].disconnected = TRUE]
            /\ ret' = IF p.who = "caller"
                        THEN [op |-> "closeSession", val |-> "ok"] ELSE ret
            /\ unhandled' = unhandled
       ELSE /\ ret' = IF p.who = "caller"
                        THEN Error("closeSession", "disconnect failed") ELSE ret
            /\ unhandled' = IF p.who = "caller" THEN unhandled
                                                ELSE unhandled + 1
            /\ sessions' = Outcome(sessions, p, FALSE)
            /\ UNCHANGED <<threads, debugSession, activeThread, sourceFiles>>
  /\ UNCHANGED <<capabilities, console, delivered, missed, threadsBody,
                 calls, gsl, stack, scribe>>

\* ------------------------------------------------------------------ target events
\* The adapter emits events of a session once launch has been sent to it and
\* until the session has been disconnected.
CanEmit(s) ==
  /\ Budget
  /\ Sent(s, "launch") > 0
  /\ ~sessions[s].disconnected

\* An emitted event: its stream and its body (thread id or exit code).
Event(kind, arg) == [kind |-> kind, arg |-> arg]

Call(op, text) == [op |-> op, text |-> text]
StartInput == Call("startInput", <<>>)
StopInput == Call("stopInput", <<>>)
OutputLine(text) == Call("outputLine", text)

TargetExitedLine == OutputLine(<<"The target has exited.">>)
ExitedLine(code) == OutputLine(<<"Target exited with status", code>>)

\* The console after the calls of the sequence `made' were made on it.
RECURSIVE Printed(_, _)
Printed(con, made) ==
  IF made = <<>> THEN con ELSE Printed(Add(con, Head(made)), Tail(made))

\* An event on a stream without subscriber is lost.
Missed ==
  /\ missed' = missed + 1
  /\ UNCHANGED <<debugSession, capabilities, threads, activeThread,
                 sourceFiles, sessions, pending, console, unhandled, ret,
                 threadsBody, calls, gsl, stack, scribe>>

\* output event (481-483): the text goes to the console.
OnOutput(s) ==
  /\ CanEmit(s)
  /\ delivered' = Add(delivered, Event("output", 0))
  /\ IF "output" \in sessions[s].subs
       THEN /\ console' = Add(console, Call("output", <<"out">>))
            /\ UNCHANGED <<debugSession, capabilities, threads, activeThread,
                           sourceFiles, sessions, pending, missed, unhandled,
                           ret, threadsBody, calls, gsl, stack, scribe>>
       ELSE Missed

\* _onContinued (517-523): the comparison is ===, so an absent thread id
\* equals an active thread never assigned and null equals null, but an
\* absent id does not equal null.
OnContinued(s, tid) ==
  /\ CanEmit(s)
  /\ delivered' = Add(delivered, Event("continued", tid))
  /\ IF "continued" \in sessions[s].subs
       THEN /\ console' = IF tid = activeThread
                            THEN Add(console, StopInput) ELSE console
            /\ UNCHANGED <<debugSession, capabilities, threads, activeThread,
                           sourceFiles, sessions, pending, missed, unhandled,
                           ret, threadsBody, calls, gsl, stack, scribe>>
       ELSE Missed

\* _onExitedDebugee (540-545): the line is printed, then closeSession() is
\* called and its promise dropped.
OnExitedDebugee(s, code) ==
  /\ CanEmit(s)
  /\ delivered' = Add(delivered, Event("exited", code))
  /\ IF "exited" \in sessions[s].subs
       THEN /\ console' = Add(console, ExitedLine(code))
            /\ sessions' = CloseRequest(sessions)
            /\ pending' = CloseAwait(pending, "reaction")
            /\ UNCHANGED <<debugSession, capabilities, threads, activeThread,
                           sourceFiles, missed, unhandled, ret, threadsBody,
                           calls, gsl, stack, scribe>>
       ELSE Missed

\* The guard of _onTerminatedDebugee (549): the event is ignored when no
\* session is held.
TerminatedIgnored == debugSession = NoSession

\* _onTerminatedDebugee (547-555): unless ignored, the line is printed,
\* closeSession() is called (its promise dropped) and input resumes, all
\* before disconnect is answered.
OnTerminatedDebugee(s) ==
  /\ CanEmit(s)
  /\ delivered' = Add(delivered, Event("terminated", 0))
  /\ IF "terminated" \in sessions[s].subs
       THEN /\ IF TerminatedIgnored
                 THEN UNCHANGED <<console, sessions, pending>>
                 ELSE /\ console' = Printed(console,
                                            <<TargetExitedLine, StartInput>>)
                      /\ sessions' = CloseRequest(sessions)
                      /\ pending' = CloseAwait(pending, "reaction")
            /\ UNCHANGED <<debugSession, capabilities, threads, activeThread,
                           sourceFiles, missed, unhandled, ret, threadsBody,
                           calls, gsl, stack, scribe>>
       ELSE Missed

\* ------------------------------------------------------------------ getSourceLines
Min(a, b) == IF a < b THEN a ELSE b
Max(a, b) == IF a > b THEN a ELSE b

\* Array.prototype.slice(b, e) on 0-based indices: a negative index counts
\* from the end, indices are clamped to [0, length].
Slice(lines, b, e) ==
  LET n == Len(lines)
      from == IF b < 0 THEN Max(n + b, 0) ELSE Min(b, n)
      to == IF e < 0 THEN Max(n + e, 0) ELSE Min(e, n)
  IN SubSeq(lines, from + 1, to)

\* The window without the two clamps of 455-459.
UnclampedWindow(lines, start, length) ==
  [k \in 1..length |-> IF start + k <= Len(lines) THEN lines[start + k]
                       ELSE "undefined"]

\* 455-460: empty when start is at or past the end, else the lines
\* [start, min(start + length, lines.length)).
SourceWindow(lines, start, length) ==
  IF start >= Len(lines) THEN <<>>
  ELSE Slice(lines, start, Min(start + length, Len(lines)))

\* ------------------------------------------------------------------ source cache
\* SourceFileCache keeps texts by source reference or by path.
RefKey(ref) == [kind |-> "ref", ref |-> ref, path |-> NoPath]
PathKey(path) == [kind |-> "path", ref |-> 0, path |-> path]

PathB == <<"a", "b.js">>

\* The text a fetch of a source yields: the text chosen for the source that
\* getSourceLines is called on, else a fixed text per key space.
FileText(key) ==
  IF gsl.kind # "none" THEN gsl.text
  ELSE IF key.kind = "path" THEN <<"l0", "l1">> ELSE <<"r0">>

\* The stackTrace answers of the adapter: no frame, a frame without source,
\* a source with a path, one with a reference, one with neither path nor name.
FramePath == [NoFrame EXCEPT !.line = 1, !.hasSource = TRUE, !.path = PathB,
                             !.name = "b.js"]
FrameRef == [NoFrame EXCEPT !.hasSource = TRUE, !.ref = 7, !.name = "eval"]
FrameBare == [NoFrame EXCEPT !.hasSource = TRUE]
StackBodies == {<<>>, <<NoFrame>>, <<FramePath>>, <<FrameRef>>, <<FrameBare>>}

\* nuclideUri.split(nuclideUri.resolve(path)).pop(): the last path segment.
Basename(path) == path[Len(path)]

\* The location line with the 0-based line number of the frame.
ZeroBasedCalls(frame, text) ==
  LET w == SourceWindow(text, frame.line, 1)
      line == IF Len(w) > 0 THEN w[1] ELSE ""
      name == IF frame.path # NoPath THEN Basename(frame.path) ELSE frame.name
  IN IF frame.path # NoPath \/ frame.name # NoName
       THEN <<OutputLine(<<name, frame.line, line>>), StartInput>>
       ELSE <<StartInput>>

\* _getTopOfStackSourceInfo from 587 on and _onStopped 530-536, once the
\* source text is known: the location line, if the source has a path or a
\* name, then the resume-input signal.
TopOfStackCalls(frame, text) ==
  LET w == SourceWindow(text, frame.line, 1)
      line == IF Len(w) > 0 THEN w[1] ELSE ""
  IN IF frame.path # NoPath
       THEN <<OutputLine(<<Basename(frame.path), frame.line + 1, line>>),
              StartInput>>
     ELSE IF frame.name # NoName
       THEN <<OutputLine(<<frame.name, frame.line + 1, line>>), StartInput>>
     ELSE <<StartInput>>

\* ------------------------------------------------------------------ stopped
\* _onStopped (525-529) up to the stackTrace request of getStackTrace
\* (406-413).  The returned promise is dropped by the subscription, so a
\* throw of _ensureDebugSession is a rejection nobody handles.
OnStopped(s, tid) ==
  /\ CanEmit(s)
  /\ delivered' = Add(delivered, Event("stopped", tid))
  /\ IF "stopped" \in sessions[s].subs
       THEN /\ IF tid \notin {NoThread, Undefined} /\ tid = activeThread
                 THEN IF EnsureDebugSession
                        THEN /\ sessions' = Send(sessions, debugSession,
                                                 Req("stackTrace", tid, 1))
                             /\ pending' = Add(pending,
                                  Await(debugSession, "stackTrace",
                                        "reaction", tid))
                             /\ unhandled' = unhandled
                        ELSE /\ unhandled' = unhandled + 1
                             /\ UNCHANGED <<sessions, pending>>
                 ELSE UNCHANGED <<sessions, pending, unhandled>>
            /\ UNCHANGED <<debugSession, capabilities, threads, activeThread,
                           sourceFiles, console, missed, ret, threadsBody,
                           calls, gsl, stack, scribe>>
       ELSE Missed

\* stackTrace answered inside the stopped reaction (580-587, 444-453): without
\* a source the reaction only resumes input; a source held by the cache is
\* printed at once; otherwise the text is fetched, by reference through
\* _getSourceByReference (615-620) or by path from the file system.
StackTraceResponse(p, ok, body) ==
  /\ p.cmd = "stackTrace" /\ p.who = "reaction"
  /\ LET frame == IF body = <<>> THEN NoFrame ELSE body[1]
         key == IF frame.ref # 0 THEN RefKey(frame.ref) ELSE PathKey(frame.path)
         rest == Remove(pending, p)
         fetch == frame.hasSource /\ (frame.ref # 0 \/ frame.path # NoPath)
                    /\ key \notin sourceFiles
     IN IF ~ok \/ (fetch /\ frame.ref # 0 /\ ~EnsureDebugSession)
          THEN /\ unhandled' = unhandled + 1
               /\ pending' = rest
               /\ sessions' = Outcome(sessions, p, ok)
               /\ UNCHANGED console
        ELSE IF ~frame.hasSource
          THEN /\ console' = Add(console, StartInput)
               /\ pending' = rest
               /\ UNCHANGED <<unhandled, sessions>>
        ELSE IF ~fetch
          THEN /\ console' = Printed(console, TopOfStackCalls(frame,
                                IF key \in sourceFiles THEN FileText(key)
                                                       ELSE <<>>))
               /\ pending' = rest
               /\ UNCHANGED <<unhandled, sessions>>
        ELSE IF frame.ref # 0
          THEN /\ sessions' = Send(sessions, debugSession,
                                   Req("source", frame.ref, 0))
               /\ pending' = Add(rest,
                    [Await(debugSession, "source", "reaction", p.tid)
                       EXCEPT !.frame = frame])
               /\ UNCHANGED <<console, unhandled>>
          ELSE /\ pending' = Add(rest,
                    [Await(NoSession, "readFile", "reaction", p.tid)
                       EXCEPT !.frame = frame])
               /\ UNCHANGED <<console, unhandled, sessions>>
  /\ UNCHANGED <<debugSession, capabilities, threads, activeThread,
                 sourceFiles, delivered, missed, ret, threadsBody, calls, gsl, stack, scribe>>

\* The fetched text arrives and the cache keeps it.  Inside the stopped
\* reaction the location is printed, and a failed fetch rejects the dropped
\* promise of the reaction; a getSourceLines call of the caller resumes
\* after its await (448, 452) and returns the window (455-460), or rejects
\* with the failure.
Fetched(p, ok, key) ==
  /\ pending' = Remove(pending, p)
  /\ sourceFiles' = IF ok THEN sourceFiles \cup {key} ELSE sourceFiles
  /\ IF p.who = "reaction"
       THEN /\ console' = IF ok
                            THEN Printed(console,
                                   TopOfStackCalls(p.frame, FileText(key)))
                            ELSE console
            /\ unhandled' = IF ok THEN unhandled ELSE unhandled + 1
            /\ UNCHANGED <<ret, gsl>>
       ELSE /\ ret' = [op |-> "getSourceLines",
                       val |-> IF ok THEN "ok" ELSE "request failed"]
            /\ gsl' = IF ok
                        THEN [gsl EXCEPT !.done = TRUE,
                               !.result = SourceWindow(FileText(key),
                                            gsl.start, gsl.length)]
                        ELSE gsl
            /\ UNCHANGED <<console, unhandled>>
  /\ sessions' = Outcome(sessions, p, ok)
  /\ UNCHANGED <<debugSession, capabilities, threads, activeThread,
                 delivered, missed, threadsBody, calls, stack, scribe>>

\* source answered (615-620).
SourceResponse(p, ok) ==
  /\ p.cmd = "source"
  /\ Fetched(p, ok, RefKey(p.frame.ref))

\* The file read of getFileDataByPath finished.
ReadFileDone(p, ok) ==
  /\ p.cmd = "readFile"
  /\ Fetched(p, ok, PathKey(p.frame.path))

\* ------------------------------------------------------------------ stepping
StepIntoMessage == "There is no active thread to step into."
StepThroughMessage == "There is no active thread to step through."

NeverNull(t) == FALSE

\* activeThread == null (419, 428)
IsNull(t) == t \in {NoThread, Undefined}

\* stepIn (417-424) with cmd "stepIn", stepOver (426-433) with cmd "next".
Step(op, cmd, msg) ==
  /\ Budget
  /\ calls' = calls + 1
  /\ IF IsNull(activeThread)
       THEN /\ ret' = Error(op, msg)
            /\ UNCHANGED <<sessions, pending>>
     ELSE IF ~EnsureDebugSession
       THEN /\ ret' = Error(op, NoActiveSession)
            /\ UNCHANGED <<sessions, pending>>
     ELSE /\ sessions' = Send(sessions, debugSession,
                              Req(cmd, activeThread, 0))
          /\ pending' = Add(pending,
                            Await(debugSession, cmd, "caller", activeThread))
          /\ ret' = [op |-> op, val |-> "pending"]
  /\ UNCHANGED <<debugSession, capabilities, threads, activeThread,
                 sourceFiles, console, delivered, missed, unhandled,
                 threadsBody, gsl, stack, scribe>>

StepIn == Step("stepIn", "stepIn", StepIntoMessage)
StepOver == Step("stepOver", "next", StepThroughMessage)

\* A failed step request taken for the end of the session.
StepFailureCloses(p, ok) ==
  /\ p.cmd \in {"stepIn", "next"}
  /\ pending' = Remove(pending, p)
  /\ ret' = [op |-> IF p.cmd = "stepIn" THEN "stepIn" ELSE "stepOver",
             val |-> IF ok THEN "ok" ELSE "request failed"]
  /\ debugSession' = IF ok THEN debugSession ELSE NoSession
  /\ sessions' = Outcome(sessions, p, ok)
  /\ UNCHANGED <<capabilities, threads, activeThread,
                 sourceFiles, console, delivered, missed, unhandled,
                 threadsBody, calls, gsl, stack, scribe>>

\* stepIn / next answered: the call resolves, or rejects with the failure.
StepResponse(p, ok) ==
  /\ p.cmd \in {"stepIn", "next"}
  /\ pending' = Remove(pending, p)
  /\ ret' = [op |-> IF p.cmd = "stepIn" THEN "stepIn" ELSE "stepOver",
             val |-> IF ok THEN "ok" ELSE "request failed"]
  /\ sessions' = Outcome(sessions, p, ok)
  /\ UNCHANGED <<debugSession, capabilities, threads, activeThread,
                 sourceFiles, console, delivered, missed, unhandled,
                 threadsBody, calls, gsl, stack, scribe>>

\* ------------------------------------------------------------------ getStackTrace
\* getStackTrace (406-415) invoked by the caller with the default frame
\* count: _ensureDebugSession throws when no session is held, else one
\* stackTrace request goes to the session held and the call suspends.
GetStackTrace(tid) ==
  /\ Budget
  /\ calls' = calls + 1
  /\ IF EnsureDebugSession
       THEN /\ sessions' = Send(sessions, debugSession,
                                Req("stackTrace", tid, 0))
            /\ pending' = Add(pending,
                              Await(debugSession, "stackTrace", "caller", tid))
            /\ ret' = [op |-> "getStackTrace", val |-> "pending"]
       ELSE /\ ret' = Error("getStackTrace", NoActiveSession)
            /\ UNCHANGED <<sessions, pending>>
  /\ UNCHANGED <<debugSession, capabilities, threads, activeThread,
                 sourceFiles, console, delivered, missed, unhandled,
                 threadsBody, gsl, stack, scribe>>

\* stackTrace answered to the caller's getStackTrace (410-414): the frames of
\* the body are returned, or the call rejects with the failure.
StackTraceReturned(p, ok, body) ==
  /\ p.cmd = "stackTrace" /\ p.who = "caller"
  /\ pending' = Remove(pending, p)
  /\ ret' = [op |-> "getStackTrace",
             val |-> IF ok THEN "ok" ELSE "request failed"]
  /\ stack' = IF ok THEN body ELSE stack
  /\ sessions' = Outcome(sessions, p, ok)
  /\ UNCHANGED <<debugSession, capabilities, threads, activeThread,
                 sourceFiles, console, delivered, missed, unhandled,
                 threadsBody, calls, gsl, scribe>>

\* ------------------------------------------------------------------ specification
\* The thread lists the adapter answers with under Spec.
SomeThreads ==
  {<<>>, <<[id |-> 1, name |-> "main"]>>,
   <<[id |-> 2, name |-> "worker"], [id |-> 1, name |-> "main"]>>}

Outstanding == BagToSet(pending)

\* body.threadId of a continued / stopped event: an id, null, or absent.
EventThreads == ThreadIds \cup {NoThread, Undefined}

Next ==
  \/ OpenSession
  \/ CloseSession
  \/ StepIn
  \/ StepOver
  \/ \E p \in Outstanding, ok \in BOOLEAN : InitializeResponse(p, ok)
  \/ \E p \in Outstanding, ok \in BOOLEAN : LaunchResponse(p, ok)
  \/ \E p \in Outstanding, ok \in BOOLEAN, list \in SomeThreads :
       ThreadsResponse(p, ok, list)
  \/ \E p \in Outstanding, ok \in BOOLEAN : DisconnectResponse(p, ok)
  \/ \E p \in Outstanding, ok \in BOOLEAN, body \in StackBodies :
       StackTraceResponse(p, ok, body)
  \/ \E p \in Outstanding, ok \in BOOLEAN : SourceResponse(p, ok)
  \/ \E p \in Outstanding, ok \in BOOLEAN : ReadFileDone(p, ok)
  \/ \E p \in Outstanding, ok \in BOOLEAN : StepResponse(p, ok)
  \/ \E s \in DOMAIN sessions : OnOutput(s)
  \/ \E s \in DOMAIN sessions, tid \in EventThreads : OnContinued(s, tid)
  \/ \E s \in DOMAIN sessions, tid \in EventThreads : OnStopped(s, tid)
  \/ \E s \in DOMAIN sessions, code \in ExitCodes : OnExitedDebugee(s, code)
  \/ \E s \in DOMAIN sessions : OnTerminatedDebugee(s)

Spec == Init /\ [][Next]_vars

\* ------------------------------------------------------------------ serialized caller
\* A caller that awaits each openSession / closeSession before the next call,
\* on a target that emits no event; the adapter answers with any thread list.
Idle == pending = EmptyBag

SeqNext ==
  \/ Idle /\ OpenSession
  \/ Idle /\ CloseSession
  \/ \E p \in Outstanding, ok \in BOOLEAN : InitializeResponse(p, ok)
  \/ \E p \in Outstanding, ok \in BOOLEAN : LaunchResponse(p, ok)
  \/ \E p \in Outstanding, ok \in BOOLEAN, list \in ThreadLists :
       ThreadsResponse(p, ok, list)
  \/ \E p \in Outstanding, ok \in BOOLEAN : DisconnectResponse(p, ok)

SpecSeq == Init /\ [][SeqNext]_vars

\* ------------------------------------------------------------------ getSourceLines
\* getSourceLines (435-461) called by the caller on every small input: a
\* source with a non-zero reference, with a path only or with neither, the
\* text of that source, and a window.
LineTexts == SeqsUpTo({"x", "y"}, MaxLines)

GslInputs ==
  [kind : {"ref", "path", "none"}, text : LineTexts, start : 0..MaxStart,
   length : 0..MaxStart, result : {<<>>}, done : {FALSE}]

\* The source handed to the call, as the frame that would carry it, and the
\* key the cache files it under (447-452).
SourceOf(g) ==
  IF g.kind = "ref" THEN FrameRef
  ELSE IF g.kind = "path" THEN FramePath ELSE FrameBare

KeyOf(g) ==
  IF g.kind = "ref" THEN RefKey(FrameRef.ref) ELSE PathKey(FramePath.path)

\* 444-453: the lines the cache serves for the source, or none for a source
\* without reference and path.
SourceText(g) == IF g.kind = "none" THEN <<>> ELSE FileText(KeyOf(g))

\* A getSourceLines call of the caller is suspended at 448 / 452.
Fetching ==
  \E p \in BagToSet(pending) :
    p.who = "caller" /\ p.cmd \in {"source", "readFile"}

\* getSourceLines up to its first suspension.  Without reference and path,
\* or with the text in the cache, the call gets to 455-460 and resolves with
\* the window before any other task runs.  A reference the cache misses is
\* fetched through _getSourceByReference (615-620): _ensureDebugSession
\* throws when no session is held and the call rejects, else a source
\* request goes to the session held and the call suspends.  A path the
\* cache misses is read from the file system and the call suspends.
GetSourceLines ==
  /\ Budget
  /\ ~Fetching
  /\ calls' = calls + 1
  /\ LET key == KeyOf(gsl)
         call == [gsl EXCEPT !.done = FALSE, !.result = <<>>]
     IN IF gsl.kind = "none" \/ key \in sourceFiles
          THEN /\ gsl' = [call EXCEPT !.done = TRUE,
                            !.result = SourceWindow(SourceText(gsl),
                                                    gsl.start, gsl.length)]
               /\ ret' = [op |-> "getSourceLines", val |-> "ok"]
               /\ UNCHANGED <<sessions, pending>>
        ELSE IF gsl.kind = "ref" /\ ~EnsureDebugSession
          THEN /\ gsl' = call
               /\ ret' = Error("getSourceLines", NoActiveSession)
               /\ UNCHANGED <<sessions, pending>>
        ELSE IF gsl.kind = "ref"
          THEN /\ gsl' = call
               /\ ret' = [op |-> "getSourceLines", val |-> "pending"]
               /\ sessions' = Send(sessions, debugSession,
                                   Req("source", FrameRef.ref, 0))
               /\ pending' = Add(pending,
                    [Await(debugSession, "source", "caller", NoThread)
                       EXCEPT !.frame = SourceOf(gsl)])
          ELSE /\ gsl' = call
               /\ ret' = [op |-> "getSourceLines", val |-> "pending"]
               /\ pending' = Add(pending,
                    [Await(NoSession, "readFile", "caller", NoThread)
                       EXCEPT !.frame = SourceOf(gsl)])
               /\ UNCHANGED sessions
  /\ UNCHANGED <<debugSession, capabilities, threads, activeThread,
                 sourceFiles, console, delivered, missed, unhandled,
                 threadsBody, stack, scribe>>

\* The Debugger after its constructor, and the arguments and the source text
\* of the getSourceLines calls of the behaviour.
LinesInit ==
  /\ gsl \in GslInputs
  /\ debugSession = NoSession
  /\ capabilities = NoSession
  /\ threads = EmptyMap
  /\ activeThread = Undefined
  /\ sourceFiles = {}
  /\ sessions = <<>>
  /\ pending = EmptyBag
  /\ console = EmptyBag
  /\ delivered = EmptyBag
  /\ missed = 0
  /\ unhandled = 0
  /\ ret = NoCall
  /\ threadsBody = <<>>
  /\ calls = 0
  /\ stack = <<>>
  /\ scribe = NoScribe

\* The caller opens one session and calls getSourceLines, again once a call
\* has returned; the adapter and the file system answer or fail.
LinesNext ==
  \/ Len(sessions) = 0 /\ OpenSession
  \/ GetSourceLines
  \/ \E p \in Outstanding, ok \in BOOLEAN : InitializeResponse(p, ok)
  \/ \E p \in Outstanding, ok \in BOOLEAN : SourceResponse(p, ok)
  \/ \E p \in Outstanding, ok \in BOOLEAN : ReadFileDone(p, ok)

SpecLines == LinesInit /\ [][LinesNext]_vars


\* ------------------------------------------------------------------ caller operations
\* The caller's operations that need a session (stepIn, stepOver,
\* getStackTrace, getSourceLines of a source with a reference) on one session
\* that the caller or the target may close, with the stopped reaction and
\* its source fetches running in between.
RefCall == [kind |-> "ref", text |-> <<"x">>, start |-> 0, length |-> 1,
            result |-> <<>>, done |-> FALSE]

CallsInit == LinesInit /\ gsl = RefCall

CallsNext ==
  \/ Len(sessions) = 0 /\ OpenSession
  \/ CloseSession
  \/ StepIn
  \/ StepOver
  \/ \E tid \in ThreadIds : GetStackTrace(tid)
  \/ GetSourceLines
  \/ \E p \in Outstanding, ok \in BOOLEAN : InitializeResponse(p, ok)
  \/ \E p \in Outstanding, ok \in BOOLEAN : LaunchResponse(p, ok)
  \/ \E p \in Outstanding, ok \in BOOLEAN, list \in SomeThreads :
       ThreadsResponse(p, ok, list)
  \/ \E p \in Outstanding, ok \in BOOLEAN : DisconnectResponse(p, ok)
  \/ \E p \in Outstanding, ok \in BOOLEAN, body \in StackBodies :
       StackTraceResponse(p, ok, body)
  \/ \E p \in Outstanding, ok \in BOOLEAN, body \in StackBodies :
       StackTraceReturned(p, ok, body)
  \/ \E p \in Outstanding, ok \in BOOLEAN : SourceResponse(p, ok)
  \/ \E p \in Outstanding, ok \in BOOLEAN : ReadFileDone(p, ok)
  \/ \E p \in Outstanding, ok \in BOOLEAN : StepResponse(p, ok)
  \/ \E s \in DOMAIN sessions, tid \in ThreadIds : OnStopped(s, tid)
  \/ \E s \in DOMAIN sessions, code \in ExitCodes : OnExitedDebugee(s, code)
  \/ \E s \in DOMAIN sessions : OnTerminatedDebugee(s)

SpecCalls == CallsInit /\ [][CallsNext]_vars


\* ================================================================== ScribeProcess
\* class ScribeProcess (31-143).  `scribe' holds the fields of the object
\* (childPromise, subscription, joinTimer, joinInterval: a promise and a
\* subscription are named by the process they belong to, a timer by the
\* process whose spawn armed it), the scribe_cat processes spawned so far,
\* the join-interval timers that are armed, the queue of promise reactions
\* that are ready to run (micro) and the join() calls made.  Callbacks of
\* processes and timers run only when no promise reaction is ready; promise
\* reactions run in the order in which they became ready.
JoinInterval == 60000

\* A process as spawn() leaves it: not started, nobody waiting for it, stdin
\* open and empty.  afterEnd counts messages written after stdin.end(),
\* afterExit messages written after the process terminated.
NewProc ==
  [state |-> "starting", waiters |-> <<>>, stdin |-> <<>>, end |-> "open",
   afterEnd |-> 0, afterExit |-> 0]

\* The rest of an async function that awaits the child promise of `proc':
\* of write(message arg) or of the join() call number arg.
Task(kind, proc, arg) == [kind |-> kind, proc |-> proc, arg |-> arg]

\* The end-of-line that join() writes before it ends stdin (93).
EOL == 0

\* _clear (135-142), leaving the armed timer armed.
ClearKeepsTimer(st) ==
  [st EXCEPT !.childPromise = NoProcess, !.subscription = NoProcess,
             !.joinTimer = NoTimer]

\* _clear (135-142).
Clear(st) ==
  [st EXCEPT !.childPromise = NoProcess, !.subscription = NoProcess,
             !.joinTimer = NoTimer,
             !.timers = IF st.joinTimer # NoTimer THEN @ \ {st.joinTimer}
                                                  ELSE @]

\* _getChildProcess without the check of 102-104: every call spawns.
AlwaysSpawn(st) ==
  LET p == Len(st.procs) + 1
      timed == st.joinInterval # NoInterval
  IN [st EXCEPT !.procs = Append(@, NewProc),
                !.childPromise = p,
                !.subscription = p,
                !.joinTimer = IF timed THEN p ELSE @,
                !.timers = IF timed THEN @ \cup {p} ELSE @]

\* _getChildProcess (101-133): the stored promise when there is one, else a
\* new process is spawned and connected, its promise and subscription are
\* stored and, with a join interval, the join timer is armed.
GetChildProcess(st) ==
  IF st.childPromise # NoProcess THEN st
  ELSE LET p == Len(st.procs) + 1
           timed == st.joinInterval # NoInterval
       IN [st EXCEPT !.procs = Append(@, NewProc),
                     !.childPromise = p,
                     !.subscription = p,
                     !.joinTimer = IF timed THEN p ELSE @,
                     !.timers = IF timed THEN @ \cup {p} ELSE @]

\* `await childPromise' (59, 81): the rest of the function runs once the
\* promise is resolved, after the reactions registered before it.
AwaitChild(st, task) ==
  IF st.procs[task.proc].state = "starting"
    THEN [st EXCEPT !.procs[task.proc].waiters = Append(@, task)]
    ELSE [st EXCEPT !.micro = Append(@, task)]

\* write (58-59) up to its await.
WriteCall(st) ==
  LET g == GetChildProcess(st)
      m == st.writes + 1
  IN AwaitChild([g EXCEPT !.writes = m], Task("write", g.childPromise, m))

\* A join() call as `joins' records it.
JoinRecord(proc, sub, state, auto) ==
  [proc |-> proc, sub |-> sub, state |-> state, timeout |-> "none",
   auto |-> auto]

\* join() without the _clear() of line 79: the joined process stays current.
JoinKeepsProcess(st, auto) ==
  IF st.childPromise = NoProcess \/ st.subscription = NoProcess
    THEN [st EXCEPT !.joins =
            Append(@, JoinRecord(NoProcess, NoProcess, "resolved", auto))]
    ELSE AwaitChild(
           [st EXCEPT !.joins =
              Append(@, JoinRecord(st.childPromise, st.subscription,
                                   "awaiting", auto))],
           Task("join", st.childPromise, Len(st.joins) + 1))

\* join (70-81) up to its await: nothing to do without a current process,
\* else the references are taken, cleared, and the child promise awaited.
JoinCall(st, auto) ==
  IF st.childPromise = NoProcess \/ st.subscription = NoProcess
    THEN [st EXCEPT !.joins =
            Append(@, JoinRecord(NoProcess, NoProcess, "resolved", auto))]
    ELSE LET c == Clear(st)
             j == Len(st.joins) + 1
         IN AwaitChild(
              [c EXCEPT !.joins =
                 Append(@, JoinRecord(st.childPromise, st.subscription,
                                      "awaiting", auto))],
              Task("join", st.childPromise, j))

\* The guard of the finally callback left out.
AlwaysCurrent(st, p) == TRUE

\* The process stream without its finally callback.
NoFinally(st, p) ==
  [st EXCEPT !.outlived = @ \/ st.childPromise \notin {NoProcess, p}]

\* this._childPromise === childPromise (114).
StillCurrent(st, p) == st.childPromise = p

\* The finally callback of the process stream (112-117).  `outlived' tells
\* that some process has terminated while a newer one was the current one.
Finally(st, p) ==
  LET seen == [st EXCEPT !.outlived =
                 @ \/ st.childPromise \notin {NoProcess, p}]
  IN IF StillCurrent(seen, p) THEN Clear(seen) ELSE seen

\* write after its await (60-62): the message goes to the child's stdin.
WriteToStdin(st, k) ==
  LET pr == st.procs[k.proc] IN
    [st EXCEPT !.procs[k.proc].stdin = Append(@, k.arg),
               !.procs[k.proc].afterEnd =
                  IF pr.end = "ended" THEN @ + 1 ELSE @,
               !.procs[k.proc].afterExit =
                  IF pr.state \in {"exited", "errored", "killed"}
                    THEN @ + 1 ELSE @]

\* join after its await (82-98): the exit listener and the timeout are set,
\* the end-of-line is written and stdin ended, at once when the write was
\* taken (`flushed'), else on drain.
EndStdin(st, k, flushed) ==
  [st EXCEPT !.joins[k.arg].state = "waiting",
             !.joins[k.arg].timeout = "armed",
             !.procs[k.proc].stdin = Append(@, EOL),
             !.procs[k.proc].end = IF flushed THEN "ended" ELSE "draining"]

\* The first ready promise reaction runs.
RunTask(st, flushed) ==
  LET k == Head(st.micro)
      rest == [st EXCEPT !.micro = Tail(@)]
  IN IF k.kind = "write" THEN WriteToStdin(rest, k)
                         ELSE EndStdin(rest, k, flushed)

\* The process stream emits the child (108-122): the child promise resolves
\* and the functions awaiting it become ready in the order they awaited.
Emitted(st, p) ==
  [st EXCEPT !.procs[p].state = "running",
             !.procs[p].waiters = <<>>,
             !.micro = @ \o st.procs[p].waiters]

\* The joins whose exit listener (84-86) hears process p exit.
ExitHeard(js, p) ==
  [j \in DOMAIN js |->
     IF js[j].proc = p /\ js[j].state = "waiting"
       THEN [js[j] EXCEPT !.state = "resolved"] ELSE js[j]]

\* The child exits: the stream completes and runs finally, joins resolve.
Exited(st, p) ==
  Finally([st EXCEPT !.procs[p].state = "exited",
                     !.joins = ExitHeard(@, p)], p)

\* The child reports an error: the stream fails and runs finally.
Errored(st, p) ==
  Finally([st EXCEPT !.procs[p].state = "errored"], p)

\* A timeout whose callback does nothing.
TimeoutIgnored(st, j) == [st EXCEPT !.joins[j].timeout = "fired"]

\* The timeout of join number j (87-90): the subscription taken by that join
\* is unsubscribed, which stops a process still running and runs finally,
\* and the join resolves.
TimedOut(st, j) ==
  LET s == st.joins[j].sub
      live == st.procs[s].state \in {"starting", "running"}
      done == [st EXCEPT !.joins[j].state = "resolved",
                         !.joins[j].timeout = "fired"]
  IN IF live THEN Finally([done EXCEPT !.procs[s].state = "killed"], s)
             ELSE done

\* The join timer t (126-129): the stored timer is forgotten and join() runs.
JoinTimerFired(st, t) ==
  JoinCall([st EXCEPT !.timers = @ \ {t}, !.joinTimer = NoTimer], TRUE)

\* ------------------------------------------------------------------ ScribeProcess actions
dbgVars == <<debugSession, capabilities, threads, activeThread, sourceFiles,
             sessions, pending, console, delivered, missed, unhandled, ret,
             threadsBody, calls, gsl, stack>>

\* The caller calls write() and join() at most MaxCalls times.
ScribeBudget == scribe.calls < MaxCalls

\* Callbacks of processes and timers run between promise reactions only
\* when none is ready.
Quiet == scribe.micro = <<>>

Write ==
  /\ ScribeBudget
  /\ scribe' = [WriteCall(scribe) EXCEPT !.calls = @ + 1]
  /\ UNCHANGED dbgVars

Join ==
  /\ ScribeBudget
  /\ scribe' = [JoinCall(scribe, FALSE) EXCEPT !.calls = @ + 1]
  /\ UNCHANGED dbgVars

RunMicrotask(flushed) ==
  /\ scribe.micro # <<>>
  /\ scribe' = RunTask(scribe, flushed)
  /\ UNCHANGED dbgVars

ChildEmitted(p) ==
  /\ Quiet /\ scribe.procs[p].state = "starting"
  /\ scribe' = Emitted(scribe, p)
  /\ UNCHANGED dbgVars

ProcessExit(p) ==
  /\ Quiet /\ scribe.procs[p].state = "running"
  /\ scribe' = Exited(scribe, p)
  /\ UNCHANGED dbgVars

ProcessError(p) ==
  /\ Quiet /\ scribe.procs[p].state = "running"
  /\ scribe' = Errored(scribe, p)
  /\ UNCHANGED dbgVars

StdinDrained(p) ==
  /\ Quiet /\ scribe.procs[p].state = "running"
  /\ scribe.procs[p].end = "draining"
  /\ scribe' = [scribe EXCEPT !.procs[p].end = "ended"]
  /\ UNCHANGED dbgVars

JoinTimerFires(t) ==
  /\ Quiet
  /\ scribe' = JoinTimerFired(scribe, t)
  /\ UNCHANGED dbgVars

JoinTimeoutFires(j) ==
  /\ Quiet /\ scribe.joins[j].timeout = "armed"
  /\ scribe' = TimedOut(scribe, j)
  /\ UNCHANGED dbgVars

\* The object after its constructor (38-45), with or without a join interval.
ScribeInit ==
  /\ scribe \in {GetChildProcess([NoScribe EXCEPT !.joinInterval = i]) :
                   i \in {NoInterval, JoinInterval}}
  /\ debugSession = NoSession
  /\ capabilities = NoSession
  /\ threads = EmptyMap
  /\ activeThread = Undefined
  /\ sourceFiles = {}
  /\ sessions = <<>>
  /\ pending = EmptyBag
  /\ console = EmptyBag
  /\ delivered = EmptyBag
  /\ missed = 0
  /\ unhandled = 0
  /\ ret = NoCall
  /\ threadsBody = <<>>
  /\ calls = 0
  /\ gsl = NoGsl
  /\ stack = <<>>

ScribeNext ==
  \/ Write
  \/ Join
  \/ \E flushed \in BOOLEAN : RunMicrotask(flushed)
  \/ \E p \in DOMAIN scribe.procs : ChildEmitted(p)
  \/ \E p \in DOMAIN scribe.procs : ProcessExit(p)
  \/ \E p \in DOMAIN scribe.procs : ProcessError(p)
  \/ \E p \in DOMAIN scribe.procs : StdinDrained(p)
  \/ \E t \in scribe.timers : JoinTimerFires(t)
  \/ \E j \in DOMAIN scribe.joins : JoinTimeoutFires(j)

SpecScribe == ScribeInit /\ [][ScribeNext]_vars

\* Promise reactions run, a spawned child is emitted and an armed timeout
\* fires: none of them is postponed for ever.
SpecScribeFair ==
  /\ SpecScribe
  /\ WF_vars(\E flushed \in BOOLEAN : RunMicrotask(flushed))
  /\ WF_vars(\E p \in DOMAIN scribe.procs : ChildEmitted(p))
  /\ WF_vars(\E j \in DOMAIN scribe.joins : JoinTimeoutFires(j))

\* ================================================================== claims
NoSessionErr == "There is no active debugging session."
Terminated == Event("terminated", 0)
Disconnect == Req("disconnect", NoThread, 0)

\* Some outstanding disconnect issued by `who' is answered with success in
\* this step: its await is gone and nothing was rejected.
CloseCompletes(who) ==
  \E p \in BagToSet(pending) :
    /\ p.cmd = "disconnect" /\ p.who = who
    /\ pending' = Remove(pending, p)
    /\ IF who = "caller" THEN ret' = [op |-> "closeSession", val |-> "ok"]
                         ELSE unhandled' = unhandled

\* C1: with one session opened, no other caller operation and only
\* terminated events delivered (the first of them reaches an Open session),
\* the close logic has run exactly once: "The target has exited." was printed
\* once, resume-input was signalled once and disconnect was sent once.
C1_TerminatedClosesOnce ==
  (/\ Len(sessions) = 1 /\ calls = 1
   /\ BagToSet(delivered) = {Terminated})
  => /\ CopiesIn(TargetExitedLine, console) = 1
     /\ CopiesIn(StartInput, console) = 1
     /\ Sent(1, "disconnect") = 1

\* An exited event with code c reaches a session that is Open in this step.
C2_ExitedStep(c) ==
  /\ CopiesIn(Event("exited", c), delivered') =
       CopiesIn(Event("exited", c), delivered) + 1
  /\ debugSession # NoSession

\* C2: every exited event with code c prints "Target exited with status c"
\* exactly once; delivered to an Open session it sends disconnect on behalf
\* of the reaction; and when a disconnect sent by a reaction is answered,
\* the session is Closed and getThreads() fails with "no active session".
C2_ExitedClosesSession ==
  /\ [](\A c \in ExitCodes :
          CopiesIn(OutputLine(<<"Target exited with status", c>>), console)
            = CopiesIn(Event("exited", c), delivered))
  /\ [][(\A c \in ExitCodes : C2_ExitedStep(c) =>
            BagCardinality(pending') = BagCardinality(pending) + 1
            /\ CopiesIn(Disconnect, sessions'[debugSession].sent)
                 = CopiesIn(Disconnect, sessions[debugSession].sent) + 1)
        /\ (CloseCompletes("reaction") =>
              debugSession' = NoSession /\ GetThreads'.err = NoSessionErr)]_vars

C2_Witness ==
  /\ Len(sessions) = 1 /\ calls = 1
  /\ delivered = SetToBag({Event("exited", 1)})
  /\ CopiesIn(ExitedLine(1), console) = 1
  /\ sessions[1].disconnected
  /\ pending = EmptyBag
  /\ GetThreads.err = NoSessionErr

\* The ids a threads() response lists.
ListedIds(list) == {list[k].id : k \in DOMAIN list}

\* C3: for a caller that awaits each call: once closeSession has completed,
\* getThreads() fails with "no active session" and the thread directory is
\* empty, which is the state the next openSession starts from; once that
\* openSession has completed, the directory holds exactly the ids of the
\* threads() response it received, none carried over.
C3_CloseThenReopen ==
  /\ (Idle /\ ret = [op |-> "closeSession", val |-> "ok"]) =>
       /\ GetThreads.err = NoSessionErr
       /\ threads = EmptyMap
  /\ (Idle /\ ret = [op |-> "openSession", val |-> "ok"]) =>
       DOMAIN threads = ListedIds(threadsBody)

C3_Witness ==
  /\ Len(sessions) = 2 /\ Idle
  /\ sessions[1].disconnected /\ Sent(1, "threads") = 1
  /\ ret = [op |-> "openSession", val |-> "ok"]
  /\ threadsBody = <<[id |-> 2, name |-> "worker"]>>
  /\ DOMAIN threads = {2}

\* C4: once openSession has completed (serialized caller), getActiveThread()
\* returns the id of the first thread of the threads() response, or null for
\* an empty response, and the directory maps every listed id to the name the
\* response gives it (the last entry of an id listed twice).
C4_ActiveIsFirstThread ==
  (Idle /\ ret = [op |-> "openSession", val |-> "ok"]) =>
    /\ GetActiveThread.err = ""
    /\ GetActiveThread.val =
         (IF threadsBody = <<>> THEN NoThread ELSE Head(threadsBody).id)
    /\ GetThreads.err = ""
    /\ DOMAIN GetThreads.val = ListedIds(threadsBody)
    /\ \A k \in DOMAIN threadsBody :
         (\A j \in DOMAIN threadsBody :
            threadsBody[j].id = threadsBody[k].id => j <= k)
         => GetThreads.val[threadsBody[k].id] = threadsBody[k].name

C4_Witness ==
  /\ Idle /\ ret = [op |-> "openSession", val |-> "ok"]
  /\ Len(threadsBody) = 2
  /\ threadsBody[1].id = 2 /\ threadsBody[2].id = 1
  /\ activeThread = 2
  /\ debugSession # NoSession


\* No thread: null or undefined.
Absent(t) == t = NoThread \/ t = Undefined

\* The caller invoked operation `op' in this step.
Invoked(op) == calls' = calls + 1 /\ ret'.op = op

\* Exactly one request `req' went to session s in this step, nothing else
\* was sent to any session.
SentOnly(s, req) == sessions' = [sessions EXCEPT ![s].sent = Add(@, req)]

\* C5: stepIn() / stepOver() invoked with a null active thread fail with
\* "There is no active thread to step into." / "... to step through." and
\* send nothing; with an active thread and a session held they send exactly
\* one stepIn / next request carrying the active thread's id.
C5_StepNeedsActiveThread ==
  [][/\ Invoked("stepIn") =>
          IF Absent(activeThread)
            THEN /\ ret'.val = "There is no active thread to step into."
                 /\ sessions' = sessions /\ pending' = pending
          ELSE debugSession # NoSession =>
                 /\ SentOnly(debugSession, Req("stepIn", activeThread, 0))
                 /\ BagCardinality(pending') = BagCardinality(pending) + 1
     /\ Invoked("stepOver") =>
          IF Absent(activeThread)
            THEN /\ ret'.val = "There is no active thread to step through."
                 /\ sessions' = sessions /\ pending' = pending
          ELSE debugSession # NoSession =>
                 /\ SentOnly(debugSession, Req("next", activeThread, 0))
                 /\ BagCardinality(pending') = BagCardinality(pending) + 1
    ]_vars

C5_Witness ==
  /\ ret = [op |-> "stepIn", val |-> "There is no active thread to step into."]
  /\ debugSession = 1 /\ activeThread = NoThread
  /\ threadsBody = <<>> /\ capabilities = 1
  /\ Sent(1, "launch") = 1
  /\ Sent(1, "stepIn") = 0

\* C6: getSourceLines(source, start, length) with start >= 0, length >= 0
\* returns no line when start >= totalLines, and otherwise exactly the lines
\* with indices [start, min(start + length, totalLines)), which are
\* totalLines - start lines when start + length > totalLines.  No window
\* makes the call fail: a source without reference and path always yields a
\* result, and a call is rejected only for a missing session or a failed
\* fetch of the text.
C6_WindowClamped ==
  /\ (ret.op = "getSourceLines" /\ gsl.kind = "none") => gsl.done
  /\ (ret.op = "getSourceLines" /\ ret.val \notin {"ok", "pending"}) =>
       \/ ret.val = NoActiveSession /\ gsl.kind = "ref"
                                    /\ debugSession = NoSession
       \/ ret.val = "request failed"
  /\ gsl.done =>
      LET lines == IF gsl.kind = "none" THEN <<>> ELSE gsl.text
          total == Len(lines)
          stop == IF gsl.start + gsl.length < total
                    THEN gsl.start + gsl.length ELSE total
      IN /\ gsl.start >= total => gsl.result = <<>>
         /\ gsl.start < total =>
              /\ Len(gsl.result) = stop - gsl.start
              /\ \A k \in 1..(stop - gsl.start) :
                   gsl.result[k] = lines[gsl.start + k]
         /\ (gsl.start < total /\ gsl.start + gsl.length > total) =>
              Len(gsl.result) = total - gsl.start

C6_Witness ==
  /\ gsl.done /\ gsl.kind = "path"
  /\ gsl.text = <<"x", "y">> /\ gsl.start = 1 /\ gsl.length = 3
  /\ gsl.result = <<"y">>

\* C7: the active thread is non-null only while a session is held and the
\* thread directory has that id.
C7_ActiveThreadInDirectory ==
  ~Absent(activeThread) =>
    debugSession # NoSession /\ activeThread \in DOMAIN threads

\* Nothing is sent, nothing awaited, nothing rejected, and directory, active
\* thread and handle stay as they are.
C8_Unchanged ==
  /\ sessions' = sessions /\ pending' = pending /\ threads' = threads
  /\ activeThread' = activeThread /\ debugSession' = debugSession
  /\ unhandled' = unhandled

\* An exited or terminated event is delivered while no session is held, so
\* that its reaction closes a Closed session.
C8_ReactionOnClosed ==
  /\ debugSession = NoSession
  /\ \E e \in {Terminated} \cup {Event("exited", c) : c \in ExitCodes} :
       CopiesIn(e, delivered') = CopiesIn(e, delivered) + 1

\* C8: closeSession invoked with no session held returns normally, sends
\* nothing and leaves directory, active thread and handle as they are, and so
\* does the close of an exited / terminated reaction; invoked with a session
\* held it sends one disconnect to it and resets nothing yet; when that
\* disconnect is answered the directory is empty, the active thread null,
\* the handle discarded and the source cache flushed.
C8_CloseIdempotent ==
  [][/\ Invoked("closeSession") =>
          IF debugSession = NoSession
            THEN ret'.val = "ok" /\ C8_Unchanged
            ELSE /\ SentOnly(debugSession, Disconnect)
                 /\ BagCardinality(pending') = BagCardinality(pending) + 1
                 /\ threads' = threads /\ activeThread' = activeThread
                 /\ debugSession' = debugSession
     /\ C8_ReactionOnClosed => C8_Unchanged
     /\ (CloseCompletes("caller") \/ CloseCompletes("reaction")) =>
          /\ threads' = EmptyMap /\ activeThread' = NoThread
          /\ debugSession' = NoSession /\ sourceFiles' = {}
    ]_vars

C8_Witness ==
  /\ Len(sessions) = 1 /\ calls = 2
  /\ BagToSet(delivered) = {Event("exited", 0)}
  /\ ret = [op |-> "closeSession", val |-> "ok"]
  /\ Sent(1, "disconnect") = 1
  /\ sessions[1].disconnected
  /\ pending = EmptyBag /\ unhandled = 0
  /\ debugSession = NoSession /\ threads = EmptyMap

\* How many requests `cmd' are outstanding on session s.
Awaiting(s, cmd) ==
  Cardinality({p \in BagToSet(pending) : p.sess = s /\ p.cmd = cmd})

\* C9: every session is sent initialize exactly once, at construction; launch
\* is sent to it at most once, in the step in which its initialize answers
\* with success, and from then on the output, continued, stopped, exited and
\* terminated streams are all subscribed, so no event is emitted on a stream
\* without subscriber; and a threads request is sent only in the step in
\* which a launch answers with success.
C9_OpenSessionOrdered ==
  /\ [](/\ missed = 0
        /\ \A s \in DOMAIN sessions :
             /\ Sent(s, "initialize") = 1
             /\ Sent(s, "launch") <= 1
             /\ Sent(s, "launch") = 1 =>
                  /\ Awaiting(s, "initialize") = 0
                  /\ sessions[s].subs =
                       {"output", "continued", "stopped", "exited",
                        "terminated"})
  /\ [][/\ \A s \in DOMAIN sessions :
             Sent(s, "launch")' > Sent(s, "launch") =>
               /\ Awaiting(s, "initialize") = 1
               /\ Awaiting(s, "initialize")' = 0
               /\ capabilities' = s
        /\ (\E s \in DOMAIN sessions :
              Sent(s, "threads")' > Sent(s, "threads")) =>
           (\E s \in DOMAIN sessions :
              /\ ~sessions[s].launched /\ sessions'[s].launched
              /\ Awaiting(s, "launch") = 1 /\ Awaiting(s, "launch")' = 0)]_vars

C9_Witness ==
  /\ Len(sessions) = 1
  /\ Awaiting(1, "launch") = 1
  /\ delivered = SetToBag({Event("output", 0)})
  /\ CopiesIn(Call("output", <<"out">>), console) = 1
  /\ missed = 0

\* C10: no failure of a request issued from a reaction (stackTrace, source
\* fetch, disconnect) is left as a rejection that nothing handles.
C10_ReactionFailuresContained == unhandled = 0


\* The await p is resumed in this step: its request was answered.
Answered(p) == CopiesIn(p, pending') = CopiesIn(p, pending) - 1

\* The caller operation that issued the request of command cmd.
OpOf(cmd) ==
  IF cmd = "stepIn" THEN "stepIn"
  ELSE IF cmd = "next" THEN "stepOver"
  ELSE IF cmd = "source" THEN "getSourceLines" ELSE "getStackTrace"

\* A rejection leaves the reaction in this step.
Rejected == unhandled' = unhandled + 1

\* The request of await p is answered with a failure in this step.
Failed(p) ==
  /\ Answered(p)
  /\ sessions'[p.sess].failed = Add(sessions[p.sess].failed, p.cmd)

\* C11: when a stackTrace, stepIn, next or source request is answered, with
\* success or with a failure, the handle, the thread directory and the active
\* thread stay as they are.  A failure of a request of the caller's
\* getStackTrace, stepIn, stepOver or getSourceLines (source by reference)
\* rejects that call with the failure, and a success resolves it; nothing is
\* left unhandled.  A failure of a request of the stopped reaction rejects
\* the reaction, which is the caller of that request.  A caller is told of a
\* failed request only when a request of that operation failed; and the
\* handle is discarded only in a step in which a disconnect sent by
\* closeSession or by the exited / terminated reaction is answered.
C11_RequestFailureKeepsSession ==
  [][/\ \A p \in BagToSet(pending) :
          (p.cmd \in {"stackTrace", "stepIn", "next", "source"}
             /\ Answered(p)) =>
            /\ debugSession' = debugSession
            /\ threads' = threads
            /\ activeThread' = activeThread
            /\ p.who = "caller" =>
                 /\ ret'.op = OpOf(p.cmd)
                 /\ ret'.val = IF Failed(p) THEN "request failed" ELSE "ok"
                 /\ unhandled' = unhandled
            /\ p.who = "reaction" =>
                 /\ ret' = ret
                 /\ Failed(p) => Rejected
     /\ (ret'.val = "request failed" /\ ret # ret') =>
          \E p \in BagToSet(pending) :
            /\ p.who = "caller" /\ OpOf(p.cmd) = ret'.op /\ Failed(p)
            /\ p.cmd \in {"stackTrace", "stepIn", "next", "source"}
     /\ Rejected =>
          \/ \E p \in BagToSet(pending) : p.who = "reaction" /\ Answered(p)
          \/ BagCardinality(delivered') = BagCardinality(delivered) + 1
     /\ (debugSession # NoSession /\ debugSession' = NoSession) =>
          (CloseCompletes("caller") \/ CloseCompletes("reaction"))
    ]_vars

\* stepOver, getStackTrace and getSourceLines by reference have each had their
\* request fail, the last failure has been handed to the caller of
\* getSourceLines, and the session is still Open with its directory and
\* active thread in place.
C11_Witness ==
  /\ ret = [op |-> "getSourceLines", val |-> "request failed"]
  /\ sessions[1].failed = SetToBag({"next", "stackTrace", "source"})
  /\ Sent(1, "next") = 1 /\ Sent(1, "stackTrace") = 1 /\ Sent(1, "source") = 1
  /\ pending = EmptyBag /\ unhandled = 0 /\ ~gsl.done
  /\ debugSession = 1 /\ activeThread = 1 /\ threads = (1 :> "main")

\* A session is alive once openSession has subscribed to its streams and
\* until its disconnect has been answered.
Alive(s) == sessions[s].subs # {} /\ ~sessions[s].disconnected

\* C12: at most one session is alive, an alive session is the one the handle
\* refers to (so none is alive when no session is held, whichever call
\* discarded the handle), and the session held is alive once launch has been
\* sent to it.
C12_OneSessionAlive ==
  LET alive == {s \in DOMAIN sessions : Alive(s)} IN
    /\ Cardinality(alive) <= 1
    /\ alive \subseteq {debugSession}
    /\ (debugSession # NoSession /\ Sent(debugSession, "launch") > 0)
         => debugSession \in alive

\* C13: whenever no session is held, getThreads() and getActiveThread() throw
\* "There is no active debugging session." instead of returning, and a
\* getStackTrace() invoked then is rejected with the same error, sends no
\* request and leaves nothing awaited.
C13_ClosedOperationsFail ==
  /\ [](debugSession = NoSession =>
          /\ GetThreads.err = NoSessionErr
          /\ GetActiveThread.err = NoSessionErr)
  /\ [][(Invoked("getStackTrace") /\ debugSession = NoSession) =>
          /\ ret' = [op |-> "getStackTrace", val |-> NoSessionErr]
          /\ sessions' = sessions /\ pending' = pending
          /\ stack' = stack]_vars

\* getStackTrace was rejected on a session that had been opened and closed.
C13_Witness ==
  /\ debugSession = NoSession
  /\ Len(sessions) = 1 /\ sessions[1].disconnected
  /\ ret = [op |-> "getStackTrace", val |-> NoSessionErr]
  /\ Sent(1, "stackTrace") = 0

\* Line n (0-based) of a source text, "" past its end.
LineAt(text, n) == IF n + 1 \in DOMAIN text THEN text[n + 1] ELSE ""

\* The source text of a frame as the cache serves it: by reference when the
\* source has one, else by path, else none.
TextOf(frame) ==
  IF frame.ref # 0 THEN FileText(RefKey(frame.ref))
  ELSE IF frame.path # NoPath THEN FileText(PathKey(frame.path))
  ELSE <<>>

\* What the stopped reaction puts on the console for a top frame: the
\* location line "<name>:<line + 1> <text>" under the last path segment or,
\* without a path, the source's name; nothing without source, path and name;
\* then one resume-input signal.
C17_Expected(frame) ==
  LET loc(name) == OutputLine(<<name, frame.line + 1,
                               LineAt(TextOf(frame), frame.line)>>)
  IN IF ~frame.hasSource THEN <<StartInput>>
     ELSE IF frame.path # NoPath
       THEN <<loc(frame.path[Len(frame.path)]), StartInput>>
     ELSE IF frame.name # NoName THEN <<loc(frame.name), StartInput>>
     ELSE <<StartInput>>

\* A stopped event for thread tid is delivered in this step.
StoppedStep(tid) ==
  CopiesIn(Event("stopped", tid), delivered') =
    CopiesIn(Event("stopped", tid), delivered) + 1

\* C17: a stopped event delivered while a session is held, for the active
\* thread, sends exactly one stackTrace request for that thread with a frame
\* count of 1 and prints nothing yet; for any other thread id (or none) it
\* sends nothing, prints nothing, signals nothing and awaits nothing.  When
\* the stackTrace request, and the source fetch if one is needed, have been
\* answered with success, the console receives the location line of the top
\* frame (path /a/b.js, line 1, text l1 gives b.js:2 l1), or no line for a
\* frame without source or a source without path and name, followed by
\* exactly one resume-input signal, and nothing is rejected.
C17_StoppedPrintsTopOfStack ==
  [][/\ \A tid \in EventThreads :
          (StoppedStep(tid) /\ debugSession # NoSession) =>
            IF ~Absent(tid) /\ tid = activeThread
              THEN /\ SentOnly(debugSession, Req("stackTrace", tid, 1))
                   /\ pending' = Add(pending, Await(debugSession, "stackTrace",
                                                    "reaction", tid))
                   /\ console' = console /\ unhandled' = unhandled
              ELSE /\ sessions' = sessions /\ pending' = pending
                   /\ console' = console /\ unhandled' = unhandled
     /\ \A p \in BagToSet(pending) :
          (p.who = "reaction" /\ Answered(p) /\ ~Rejected) =>
            IF p.cmd = "stackTrace"
              THEN \E body \in StackBodies :
                     LET frame == IF body = <<>> THEN NoFrame ELSE body[1]
                         cached == \/ RefKey(frame.ref) \in sourceFiles
                                   \/ PathKey(frame.path) \in sourceFiles
                         needed == /\ frame.hasSource
                                   /\ frame.ref # 0 \/ frame.path # NoPath
                     IN \/ /\ needed => cached
                           /\ pending' = Remove(pending, p)
                           /\ console' = Printed(console, C17_Expected(frame))
                        \/ /\ needed /\ ~cached
                           /\ console' = console
                           /\ \E q \in BagToSet(pending') :
                                /\ q.frame = frame /\ q.who = "reaction"
                                /\ q.cmd = IF frame.ref # 0 THEN "source"
                                                            ELSE "readFile"
                                /\ pending' = Add(Remove(pending, p), q)
            ELSE IF p.cmd \in {"source", "readFile"}
              THEN /\ pending' = Remove(pending, p)
                   /\ console' = Printed(console, C17_Expected(p.frame))
            ELSE TRUE
    ]_vars

\* One stopped event for the active thread, top frame /a/b.js line 1: the
\* console holds "b.js:2 l1" and one resume-input signal.
C17_Witness ==
  /\ delivered = SetToBag({Event("stopped", 1)})
  /\ console = Printed(EmptyBag, <<OutputLine(<<"b.js", 2, "l1">>), StartInput>>)
  /\ pending = EmptyBag /\ unhandled = 0

\* C18: whenever the stopped reaction, resumed after its stackTrace request
\* or its source fetch, puts anything on the console (the location line, the
\* resume-input signal), a session is held at that moment and the thread of
\* the event is still the active thread.
C18_StoppedRevalidates ==
  [][\A p \in BagToSet(pending) :
       (p.who = "reaction" /\ p.cmd \in {"stackTrace", "source", "readFile"}
          /\ Answered(p) /\ console' # console) =>
         /\ debugSession # NoSession
         /\ p.tid = activeThread]_vars

\* ------------------------------------------------------------------ ScribeProcess claims
Procs == DOMAIN scribe.procs
Done == {"exited", "errored", "killed"}

\* Process p terminates in this step by itself: it exits or reports an error.
Terminates(p) ==
  /\ scribe.procs[p].state \notin Done
  /\ scribe'.procs[p].state \in {"exited", "errored"}

\* write() is invoked in this step; its message is the number of the call.
WriteInvoked == scribe'.writes = scribe.writes + 1

\* The tasks that await the child promise of a process or are ready to run.
TasksOf(st) ==
  {st.micro[i] : i \in DOMAIN st.micro} \cup
  UNION {{st.procs[p].waiters[i] : i \in DOMAIN st.procs[p].waiters} :
           p \in DOMAIN st.procs}

\* C14: when the current process exits or reports an error, the stored child
\* promise and subscription are cleared in that step; a write() invoked with
\* no child promise stored spawns one new process and its message awaits
\* that process; a message is handed to the stdin of the process it awaits;
\* and no message is ever written to a process that has terminated.
C14_RecoversFromFailure ==
  /\ [](\A p \in Procs : scribe.procs[p].afterExit = 0)
  /\ [][/\ \A p \in Procs :
             (Terminates(p) /\ scribe.childPromise = p) =>
               /\ scribe'.childPromise = NoProcess
               /\ scribe'.subscription = NoProcess
        /\ (WriteInvoked /\ scribe.childPromise = NoProcess) =>
             LET q == Len(scribe.procs) + 1 IN
               /\ DOMAIN scribe'.procs = 1..q
               /\ scribe'.childPromise = q
               /\ scribe'.procs[q].state = "starting"
               /\ scribe'.procs[q].waiters = <<Task("write", q, scribe'.writes)>>
        /\ (scribe.micro # <<>> /\ scribe'.micro = Tail(scribe.micro)
              /\ Head(scribe.micro).kind = "write") =>
             LET k == Head(scribe.micro) IN
               /\ scribe.procs[k.proc].state = "running"
               /\ scribe'.procs[k.proc].stdin =
                    Append(scribe.procs[k.proc].stdin, k.arg)]_vars

\* The first process failed while it was current and was never joined; the
\* next write spawned a second process, which was handed the message.
C14_Witness ==
  /\ Len(scribe.procs) = 2 /\ scribe.joins = <<>>
  /\ scribe.procs[1].state = "errored" /\ scribe.procs[1].stdin = <<>>
  /\ scribe.procs[2].state = "running" /\ scribe.procs[2].stdin = <<1>>
  /\ scribe.childPromise = 2

\* The process awaited by the write() invoked in this step.
WriteTarget ==
  CHOOSE p \in DOMAIN scribe'.procs :
    Task("write", p, scribe'.writes) \in TasksOf(scribe')

\* The processes that join() has been called on.
Joined(st) == {st.joins[j].proc : j \in DOMAIN st.joins} \ {NoProcess}

\* C15: no message is written to a stdin after stdin.end(); once join() has
\* written its end-of-line to a process no write() still waits for that
\* process and its stdin receives nothing more; and the message of a
\* write() invoked after join() has been called on a process awaits another
\* process, spawned by that write() if none is current.
C15_NoWriteAfterJoin ==
  /\ [](\A p \in Procs :
          /\ scribe.procs[p].afterEnd = 0
          /\ scribe.procs[p].end # "open" =>
               /\ \A k \in TasksOf(scribe) : k.proc # p
               /\ scribe.procs[p].stdin[Len(scribe.procs[p].stdin)] = EOL)
  /\ [][WriteInvoked =>
          /\ WriteTarget \notin Joined(scribe)
          /\ WriteTarget = IF scribe.childPromise # NoProcess
                             THEN scribe.childPromise
                             ELSE Len(scribe.procs) + 1]_vars

\* The caller wrote message 1, called join() and wrote message 2: process 1
\* received 1 and the end-of-line and was ended, process 2 received 2.
C15_Witness ==
  /\ Len(scribe.procs) = 2 /\ Len(scribe.joins) = 1
  /\ ~scribe.joins[1].auto
  /\ scribe.procs[1].stdin = <<1, EOL>> /\ scribe.procs[1].end = "ended"
  /\ scribe.procs[2].stdin = <<2>>

\* No join() can be told apart beyond this many: one per call and one per
\* join timer of a spawned process.
JoinSlots == 2 * MaxCalls + 1

\* join() is invoked in this step, by the caller or by the join timer.
JoinInvoked == Len(scribe'.joins) = Len(scribe.joins) + 1

\* C16: a join() invoked without a current process (no child promise or no
\* subscription stored) resolves at once and spawns nothing, ends no stdin
\* and arms no timer; a join() on a current process awaits that process and
\* resolves only in a step in which the child exits or its timeout fires;
\* when the timeout fires the join resolves and the process of the
\* subscription it took is no longer running; and every join() is
\* eventually resolved.
C16_JoinResolves ==
  /\ [][/\ JoinInvoked =>
             LET new == scribe'.joins[Len(scribe'.joins)] IN
               IF scribe.childPromise = NoProcess
                    \/ scribe.subscription = NoProcess
                 THEN /\ new.state = "resolved" /\ new.timeout = "none"
                      /\ scribe'.procs = scribe.procs
                      /\ scribe'.micro = scribe.micro
                      /\ scribe'.timers \subseteq scribe.timers
                 ELSE /\ new.state = "awaiting"
                      /\ new.proc = scribe.childPromise
                      /\ new.sub = scribe.subscription
        /\ \A j \in DOMAIN scribe.joins :
             LET old == scribe.joins[j]
                 new == scribe'.joins[j]
                 fires == old.timeout = "armed" /\ new.timeout = "fired"
                 exits == /\ scribe.procs[old.proc].state = "running"
                          /\ scribe'.procs[old.proc].state = "exited"
             IN /\ (old.state # "resolved" /\ new.state = "resolved") =>
                     (old.state = "waiting" /\ (fires \/ exits))
                /\ (old.state = "waiting" /\ exits) => new.state = "resolved"
                /\ fires => /\ new.state = "resolved"
                            /\ scribe'.procs[old.sub].state \in Done]_vars
  /\ \A j \in 1..JoinSlots :
       (Len(scribe.joins) >= j) ~>
         (Len(scribe.joins) >= j /\ scribe.joins[j].state = "resolved")

\* A join() on the first process was resolved by its timeout, which stopped
\* the process.
C16_Witness ==
  /\ Len(scribe.joins) = 1
  /\ scribe.joins[1].proc = 1 /\ scribe.joins[1].state = "resolved"
  /\ scribe.joins[1].timeout = "fired"
  /\ scribe.procs[1].state = "killed" /\ scribe.procs[1].end = "ended"

\* Process p stops in this step: it exits, fails or is stopped by a timeout.
Stops(p) ==
  scribe.procs[p].state \notin Done /\ scribe'.procs[p].state \in Done

\* C19: when a process stops that is not the current one, the stored child
\* promise, subscription and join timer and the armed timer are left as they
\* are; when the current process stops, all three references are cleared.
C19_OldProcessKeepsNewRefs ==
  [][\A p \in Procs :
       Stops(p) =>
         IF scribe.childPromise = p
           THEN /\ scribe'.childPromise = NoProcess
                /\ scribe'.subscription = NoProcess
                /\ scribe'.joinTimer = NoTimer
           ELSE /\ scribe'.childPromise = scribe.childPromise
                /\ scribe'.subscription = scribe.subscription
                /\ scribe'.joinTimer = scribe.joinTimer
                /\ scribe'.timers = scribe.timers]_vars

\* Process 1 was joined, a write spawned process 2, then process 1 stopped:
\* process 2 is still current with its subscription and its join timer.
C19_Witness ==
  /\ scribe.outlived /\ Len(scribe.procs) = 2
  /\ scribe.procs[1].state \in Done /\ scribe.procs[2].state \notin Done
  /\ scribe.childPromise = 2 /\ scribe.subscription = 2
  /\ scribe.joinTimer = 2 /\ scribe.timers = {2}

\* C20: at most one join timer is armed; an armed timer is the stored one
\* and was armed by the current process; the stored timer is an armed one;
\* with a join interval the current process always has its timer armed, and
\* without one no timer is ever armed or stored.  A join() run by the timer
\* joins the process that armed it.  Every join() and every stop of the
\* current process leaves no timer armed.  A process is spawned, and a
\* timer armed, only by a write() invoked with no process current.
C20_JoinTimer ==
  /\ [](/\ Cardinality(scribe.timers) <= 1
        /\ \A t \in scribe.timers :
             scribe.joinTimer = t /\ scribe.childPromise = t
        /\ scribe.joinTimer # NoTimer => scribe.joinTimer \in scribe.timers
        /\ scribe.joinInterval = NoInterval =>
             scribe.timers = {} /\ scribe.joinTimer = NoTimer
        /\ (scribe.joinInterval # NoInterval
              /\ scribe.childPromise # NoProcess) =>
             scribe.timers = {scribe.childPromise})
  /\ [][/\ JoinInvoked =>
             LET new == scribe'.joins[Len(scribe'.joins)] IN
               /\ scribe'.timers = {} /\ scribe'.joinTimer = NoTimer
               /\ new.auto => /\ scribe.timers = {new.proc}
                              /\ scribe'.childPromise = NoProcess
                              /\ Len(scribe'.procs) = Len(scribe.procs)
        /\ \A p \in Procs :
             (Stops(p) /\ scribe.childPromise = p) =>
               scribe'.timers = {} /\ scribe'.joinTimer = NoTimer
        /\ (Len(scribe'.procs) > Len(scribe.procs)
              \/ ~(scribe'.timers \subseteq scribe.timers)) =>
             WriteInvoked /\ scribe.childPromise = NoProcess]_vars

\* The join timer of process 1 fired and joined it; the next write spawned
\* process 2, whose timer is armed.
C20_Witness ==
  /\ scribe.joinInterval # NoInterval
  /\ Len(scribe.joins) = 1 /\ scribe.joins[1].auto /\ scribe.joins[1].proc = 1
  /\ Len(scribe.procs) = 2 /\ scribe.procs[2].stdin = <<1>>
  /\ scribe.timers = {2} /\ scribe.joinTimer = 2

\* The processes in use: spawned, not stopped, and not handed to a join().
InUse(st) ==
  {p \in DOMAIN st.procs : st.procs[p].state \notin Done} \ Joined(st)

\* C21: the stored child promise and subscription are both null or both
\* those of the same process, and a process in use is the current one, so
\* at most one is; a write() invoked while a child promise is stored spawns
\* nothing, keeps the promise and awaits that process, also when the child
\* has not been obtained yet; and a step spawns at most one process, and
\* only when no child promise is stored.
C21_SharedSpawn ==
  /\ [](/\ scribe.childPromise = scribe.subscription
        /\ InUse(scribe) \subseteq {scribe.childPromise}
        /\ Cardinality(InUse(scribe)) <= 1)
  /\ [][/\ (WriteInvoked /\ scribe.childPromise # NoProcess) =>
             /\ Len(scribe'.procs) = Len(scribe.procs)
             /\ scribe'.childPromise = scribe.childPromise
             /\ scribe'.subscription = scribe.subscription
             /\ WriteTarget = scribe.childPromise
        /\ Len(scribe'.procs) # Len(scribe.procs) =>
             /\ scribe.childPromise = NoProcess
             /\ Len(scribe'.procs) = Len(scribe.procs) + 1
             /\ scribe'.childPromise = Len(scribe'.procs)]_vars

\* Two write() calls were made before the child of the constructor's spawn
\* was obtained: both await process 1 and nothing else was spawned.
C21_Witness ==
  /\ Len(scribe.procs) = 1 /\ scribe.childPromise = 1
  /\ scribe.procs[1].state = "starting"
  /\ scribe.procs[1].waiters = <<Task("write", 1, 1), Task("write", 1, 2)>>

====
